---- MODULE Spec2Model ----
(***************************************************************************)
(* Model of source/FX/ParserNodes.hpp: the node tree (nodetree), its page  *)
(* based memory pool (nodetree::memory_pool) and the semantic type         *)
(* descriptor (Nodes::Type).                                               *)
(*                                                                         *)
(* Memory is modelled at the granularity the code observes it: a page is   *)
(* its cursor, the size of its zero-initialised byte vector and the slot   *)
(* headers (nodeinfo) that were written into it, keyed by byte offset.     *)
(* memory_pool::clear is stepped one do-while iteration at a time, so that *)
(* every header read of the walk is a state of the model.                  *)
(***************************************************************************)
EXTENDS Integers, Sequences, FiniteSets, TLC

VARIABLES
    pages,       \* memory_pool::_pages, in creation order
    pc,          \* "building" | "clearing" | "done" | "crashed" | "threw"
    walk,        \* position of clear(): [page, node] (node = byte offset)
    dtorCalls,   \* history: destructor invocations made by clear()
    reads,       \* history: header reads made by clear(): [page, off, len]
    created,     \* history: make_node calls: [page, off, T, location]
    structs, uniforms, functions, techniques,   \* nodetree's collections
    appendLog,   \* history: appends to a collection: [coll, decl]
    ty,          \* a Nodes::Type value
    cls          \* the results of Type's predicates on ty

vars == <<pages, pc, walk, dtorCalls, reads, created,
          structs, uniforms, functions, techniques, appendLog, ty, cls>>

None == "none"

NotEvaluated == [evaluated |-> FALSE]

----------------------------------------------------------------------------
(* Bounds of the model *)

MaxAdds == 3          \* make_node calls per run
MaxDecls == 2         \* appends to collections per run
MaxArrayLength == 1   \* largest ArrayLength tried

(* Program and ABI constants *)

DefaultPageSize == 4096   \* size_t(4096) in add()
WordSize == 8             \* sizeof(size_t) = sizeof(void(*)(void *))
SizeofNode == 48          \* sizeof(node): id, padding, location
QualifierBits == 14       \* bits 0..13 carry the Qualifier enumerators

SizeofNodeinfo == 2 * WordSize + SizeofNode   \* size, dtor, data[sizeof(node)]

(* size_t arithmetic wraps; 2^30 keeps every value inside TLC's integers   *)
(* and is larger than any size of the model.                               *)
SizeModulus == 2^30

SizeSub(a, b) == (a - b) % SizeModulus

Max(a, b) == IF a > b THEN a ELSE b

----------------------------------------------------------------------------
(* enum class nodeid *)

nodeid ==
    [unknown |-> 0, LValue |-> 1, Literal |-> 2, Unary |-> 3, Binary |-> 4,
     Intrinsic |-> 5, Conditional |-> 6, Assignment |-> 7, Sequence |-> 8,
     Call |-> 9, Constructor |-> 10, Swizzle |-> 11, FieldSelection |-> 12,
     InitializerList |-> 13, Compound |-> 14, DeclaratorList |-> 15,
     ExpressionStatement |-> 16, If |-> 17, Switch |-> 18, Case |-> 19,
     For |-> 20, While |-> 21, Return |-> 22, Jump |-> 23, Annotation |-> 24,
     Variable |-> 25, Struct |-> 26, Function |-> 27, Pass |-> 28,
     Technique |-> 29]

(* location() as stamped by node's constructor, and the locations the      *)
(* caller passes to make_node.                                             *)
DefaultLocation == [line |-> 0, column |-> 0]

Locations == {[line |-> 1, column |-> 1], [line |-> 7, column |-> 3]}

(* The template arguments T of make_node<T> / add<T>: the shape and        *)
(* sizeof(T).  add<T> accepts any T; sizeof(T) is a multiple of the word   *)
(* size, as every shape holds pointer-aligned members.  The sizes put the  *)
(* slot footprints (16 + sizeof(T)) at 96, 2048, 4000, 4096 and 4104       *)
(* bytes, i.e. around the page boundaries.                                 *)
Shapes ==
    {[shape |-> "Pass",      bytes |-> 80],
     [shape |-> "Technique", bytes |-> 2032],
     [shape |-> "Function",  bytes |-> 3984],
     [shape |-> "Variable",  bytes |-> 4080],
     [shape |-> "Struct",    bytes |-> 4088]}

(* T::T(): every concrete shape passes its own nodeid to node(nodeid id),  *)
(* which sets id(id), location().                                          *)
CtorId(shape) ==
    CASE shape = "Variable"  -> nodeid.Variable
      [] shape = "Struct"    -> nodeid.Struct
      [] shape = "Function"  -> nodeid.Function
      [] shape = "Pass"      -> nodeid.Pass
      [] shape = "Technique" -> nodeid.Technique

Construct(T) ==
    IF T.shape = "Technique"
    THEN [id |-> CtorId(T.shape), location |-> DefaultLocation, Passes |-> <<>>]
    ELSE [id |-> CtorId(T.shape), location |-> DefaultLocation]

----------------------------------------------------------------------------
(* memory_pool::page and memory_pool::add *)

(* page(size): cursor(0), memory(size, 0); no header is written yet. *)
NewPage(size) == [cursor |-> 0, memsize |-> size, slots |-> <<>>]

(* auto size = sizeof(nodeinfo) - sizeof(node) + sizeof(T) *)
Footprint(T) == SizeofNodeinfo - SizeofNode + T.bytes

(* the find_if predicate *)
FitsPageLoose(page, size) == page.cursor + size <= page.memsize

FitsPage(page, size) == page.cursor + size < page.memsize

(* std::find_if over _pages: the first page that fits, 0 for end() *)
FindPage(ps, size) ==
    LET fit == {i \in 1..Len(ps) : FitsPage(ps[i], size)}
    IN  IF fit = {} THEN 0 ELSE CHOOSE i \in fit : \A j \in fit : i <= j

(* std::max(size_t(4096), size) *)
NewPageSizeFixed(size) == DefaultPageSize

NewPageSize(size) == Max(DefaultPageSize, size)

(* &page->memory.at(page->cursor): where the new nodeinfo is placed *)
PlaceAtFront(page) == 0

PlaceAt(page) == page.cursor

(* page->cursor += node->size *)
AdvanceNot(cursor, size) == cursor

Advance(cursor, size) == cursor + size

(* Writing a slot's bytes [off, off + info.size) replaces whatever headers *)
(* those bytes held.                                                       *)
WriteSlot(slots, off, info) ==
    LET keep == {o \in DOMAIN slots :
                    o + slots[o].size <= off \/ off + info.size <= o}
    IN  (off :> info) @@ [o \in keep |-> slots[o]]

(* add<T>(): the pool afterwards, the slot returned, and whether           *)
(* memory.at() accepted the cursor (it throws std::out_of_range otherwise, *)
(* after the page was appended).                                           *)
Add(T) ==
    LET size  == Footprint(T)
        found == FindPage(pages, size)
        ps1   == IF found = 0
                 THEN Append(pages, NewPage(NewPageSize(size)))
                 ELSE pages
        idx   == IF found = 0 THEN Len(ps1) ELSE found
        page  == ps1[idx]
        off   == PlaceAt(page)
        info  == [size |-> size, dtor |-> T.shape, data |-> Construct(T)]
    IN  IF off >= page.memsize
        THEN [ok |-> FALSE, pages |-> ps1, page |-> idx, off |-> off]
        ELSE [ok |-> TRUE,
              pages |-> [ps1 EXCEPT ![idx] =
                            [cursor  |-> Advance(page.cursor, size),
                             memsize |-> page.memsize,
                             slots   |-> WriteSlot(page.slots, off, info)]],
              page |-> idx, off |-> off]

(* node->location = location *)
StampNot(data, location) == data

Stamp(data, location) == [data EXCEPT !.location = location]

treeVars == <<structs, uniforms, functions, techniques, appendLog>>
typeVars == <<ty, cls>>
clearVars == <<walk, dtorCalls, reads>>

(* nodetree::make_node<T>(location) *)
MakeNode(T, location) ==
    /\ pc = "building"
    /\ Len(created) < MaxAdds
    /\ LET r == Add(T)
       IN  IF r.ok
           THEN /\ pages' = [r.pages EXCEPT ![r.page].slots[r.off].data =
                                Stamp(@, location)]
                /\ created' = Append(created,
                       [page |-> r.page, off |-> r.off, T |-> T,
                        location |-> location])
                /\ pc' = pc
           ELSE /\ pages' = r.pages
                /\ pc' = "threw"
                /\ created' = created
    /\ UNCHANGED <<clearVars, treeVars, typeVars>>

----------------------------------------------------------------------------
(* memory_pool::clear, run by ~memory_pool() *)

(* What a read of node->size at byte `off` of a page can return: the       *)
(* recorded size of the header there, 0 in untouched (zero-filled) memory, *)
(* and anything when the bytes are not wholly inside the buffer or lie     *)
(* inside another slot.                                                    *)
InBuffer(page, off, len) == off >= 0 /\ off + len <= page.memsize

InsideSlot(page, off) ==
    \E o \in DOMAIN page.slots : o < off /\ off < o + page.slots[o].size

SizeAt(page, off) ==
    IF off \in DOMAIN page.slots THEN {page.slots[off].size}
    ELSE IF InBuffer(page, off, WordSize) /\ ~InsideSlot(page, off) THEN {0}
    ELSE {0, WordSize, page.cursor}

(* for (auto &page : _pages) { auto node = &page.memory.front(); ... *)
ClearBegin ==
    /\ pc = "building"
    /\ IF pages = <<>>
       THEN pc' = "done" /\ walk' = walk
       ELSE pc' = "clearing" /\ walk' = [page |-> 1, node |-> 0]
    /\ UNCHANGED <<pages, dtorCalls, reads, created, treeVars, typeVars>>

(* the range-for moves on to the next page, or clear() returns *)
NextPage(i) ==
    IF i < Len(pages)
    THEN pc' = "clearing" /\ walk' = [page |-> i + 1, node |-> 0]
    ELSE pc' = "done" /\ walk' = walk

(* one iteration of the do-while: the body, then the condition *)
ClearStep ==
    /\ pc = "clearing"
    /\ LET i    == walk.page
           off  == walk.node
           page == pages[i]
       IN  IF off \notin DOMAIN page.slots
           THEN \* node->dtor is not a recorded destructor: a wild call
                /\ dtorCalls' = Append(dtorCalls,
                       [page |-> i, off |-> off, dtor |-> None])
                /\ reads' = reads \cup
                       {[page |-> i, off |-> off + WordSize, len |-> WordSize]}
                /\ pc' = "crashed"
                /\ UNCHANGED <<pages, walk>>
           ELSE LET next == off + page.slots[off].size
                IN  /\ dtorCalls' = Append(dtorCalls,
                           [page |-> i, off |-> off,
                            dtor |-> page.slots[off].dtor])
                    /\ reads' = reads \cup
                           {[page |-> i, off |-> off + WordSize, len |-> WordSize],
                            [page |-> i, off |-> off, len |-> WordSize],
                            [page |-> i, off |-> next, len |-> WordSize]}
                    /\ \E v \in SizeAt(page, next) :
                          IF v > 0
                          THEN LET c == SizeSub(page.cursor, v)
                               IN  /\ pages' = [pages EXCEPT ![i].cursor = c]
                                   /\ IF c > 0
                                      THEN /\ pc' = pc
                                           /\ walk' = [page |-> i, node |-> next]
                                      ELSE NextPage(i)
                          ELSE /\ pages' = pages
                               /\ NextPage(i)
    /\ UNCHANGED <<created, treeVars, typeVars>>

----------------------------------------------------------------------------
(* The collections of nodetree and Technique::Passes.  The appends are     *)
(* made by the parser (structs.push_back(node) and the like).              *)

PtrOf(k) == [page |-> created[k].page, off |-> created[k].off]

Appended(k) == \E j \in 1..Len(appendLog) : appendLog[j].decl = k

(* the collection a top-level declaration of a shape is appended to *)
CollectionOf(shape) ==
    CASE shape = "Struct"    -> "structs"
      [] shape = "Variable"  -> "uniforms"
      [] shape = "Function"  -> "functions"
      [] shape = "Technique" -> "techniques"
      [] OTHER               -> None

(* structs / uniforms / functions / techniques .push_back(node) *)
PushDecl(k) ==
    /\ pc = "building"
    /\ Len(appendLog) < MaxDecls
    /\ k \in 1..Len(created)
    /\ ~Appended(k)
    /\ LET coll == CollectionOf(created[k].T.shape)
       IN  /\ coll # None
           /\ structs' = IF coll = "structs"
                         THEN Append(structs, PtrOf(k)) ELSE structs
           /\ uniforms' = IF coll = "uniforms"
                          THEN Append(uniforms, PtrOf(k)) ELSE uniforms
           /\ functions' = IF coll = "functions"
                           THEN Append(functions, PtrOf(k)) ELSE functions
           /\ techniques' = IF coll = "techniques"
                            THEN Append(techniques, PtrOf(k)) ELSE techniques
           /\ appendLog' = Append(appendLog,
                  [coll |-> coll, owner |-> 0, decl |-> k,
                   nodes |-> Len(created)])
    /\ UNCHANGED <<pages, pc, clearVars, created, typeVars>>

(* technique->Passes.push_back(pass) *)
PushPass(t, k) ==
    /\ pc = "building"
    /\ Len(appendLog) < MaxDecls
    /\ t \in 1..Len(created) /\ k \in 1..Len(created)
    /\ created[t].T.shape = "Technique"
    /\ created[k].T.shape = "Pass"
    /\ ~Appended(k)
    /\ pages' = [pages EXCEPT
           ![created[t].page].slots[created[t].off].data.Passes =
               Append(@, PtrOf(k))]
    /\ appendLog' = Append(appendLog,
           [coll |-> "Passes", owner |-> t, decl |-> k,
            nodes |-> Len(created)])
    /\ UNCHANGED <<pc, clearVars, created, structs, uniforms, functions,
                   techniques, typeVars>>

----------------------------------------------------------------------------
(* Nodes::Type *)

(* enum class Class *)
Class ==
    [Void |-> 0, Bool |-> 1, Int |-> 2, Uint |-> 3, Float |-> 4,
     Sampler1D |-> 5, Sampler2D |-> 6, Sampler3D |-> 7, Texture1D |-> 8,
     Texture2D |-> 9, Texture3D |-> 10, Struct |-> 11, String |-> 12]

ClassValues == {Class[n] : n \in DOMAIN Class}

RECURSIVE BitAnd(_, _)
BitAnd(a, b) ==
    IF a = 0 \/ b = 0 THEN 0
    ELSE (a % 2) * (b % 2) + 2 * BitAnd(a \div 2, b \div 2)

RECURSIVE BitOr(_, _)
BitOr(a, b) ==
    IF a = 0 THEN b
    ELSE IF b = 0 THEN a
    ELSE Max(a % 2, b % 2) + 2 * BitOr(a \div 2, b \div 2)

(* enum Qualifier *)
Qualifier ==
    [Extern |-> 2^0, Static |-> 2^1, Uniform |-> 2^2, Volatile |-> 2^3,
     Precise |-> 2^4, In |-> 2^5, Out |-> 2^6, InOut |-> BitOr(2^5, 2^6),
     Const |-> 2^8, Linear |-> 2^10, NoPerspective |-> 2^11,
     Centroid |-> 2^12, NoInterpolation |-> 2^13]

IsArray(t) == t.ArrayLength # 0

IsMatrix(t) == t.Rows >= 1 /\ t.Cols > 1

IsVectorAnyCols(t) == t.Rows > 1

IsVector(t) == t.Rows > 1 /\ ~IsMatrix(t)

IsVoid(t) == t.BaseClass = Class.Void

IsBoolean(t) == t.BaseClass = Class.Bool

IsIntegral(t) == t.BaseClass = Class.Int \/ t.BaseClass = Class.Uint

IsFloatingPoint(t) == t.BaseClass = Class.Float

IsNumeric(t) == IsBoolean(t) \/ IsIntegral(t) \/ IsFloatingPoint(t)

IsScalar(t) == ~IsArray(t) /\ ~IsMatrix(t) /\ ~IsVector(t) /\ IsNumeric(t)

IsTexture(t) ==
    t.BaseClass >= Class.Texture1D /\ t.BaseClass <= Class.Texture2D

IsSampler(t) ==
    t.BaseClass >= Class.Sampler1D /\ t.BaseClass <= Class.Sampler3D

IsStruct(t) == t.BaseClass = Class.Struct

HasAnyBit(t, qualifier) == BitAnd(t.Qualifiers, qualifier) # 0

HasQualifier(t, qualifier) == BitAnd(t.Qualifiers, qualifier) = qualifier

(* The Type values examined: every base class with every Rows and Cols of  *)
(* the 4-bit fields and an ArrayLength that is negative, zero or positive, *)
(* and every Qualifiers mask over the bits the enumerators use.            *)
ShapedTypes ==
    [BaseClass : ClassValues, Qualifiers : {0}, Rows : 0..15, Cols : 0..15,
     ArrayLength : -1..MaxArrayLength]

QualifiedTypes ==
    [BaseClass : {Class.Float}, Qualifiers : 0..(2^QualifierBits - 1),
     Rows : {1}, Cols : {1}, ArrayLength : {0}]

(* every predicate of Type evaluated on ty *)
Classify ==
    /\ ~cls.evaluated
    /\ cls' = [evaluated |-> TRUE,
               IsArray |-> IsArray(ty), IsMatrix |-> IsMatrix(ty),
               IsVector |-> IsVector(ty), IsScalar |-> IsScalar(ty),
               IsNumeric |-> IsNumeric(ty), IsVoid |-> IsVoid(ty),
               IsTexture |-> IsTexture(ty), IsSampler |-> IsSampler(ty),
               IsStruct |-> IsStruct(ty),
               IsString |-> (ty.BaseClass = Class.String),
               HasQualifier |->
                   [q \in DOMAIN Qualifier |-> HasQualifier(ty, Qualifier[q])]]
    /\ UNCHANGED <<pages, pc, clearVars, created, treeVars, ty>>

----------------------------------------------------------------------------
Init ==
    /\ pages = <<>>
    /\ pc = "building"
    /\ walk = None
    /\ dtorCalls = <<>>
    /\ reads = {}
    /\ created = <<>>
    /\ structs = <<>> /\ uniforms = <<>> /\ functions = <<>> /\ techniques = <<>>
    /\ appendLog = <<>>
    /\ ty = None
    /\ cls = NotEvaluated

Make == \E T \in Shapes, location \in Locations : MakeNode(T, location)

Next == Make \/ ClearBegin \/ ClearStep

Spec == Init /\ [][Next]_vars

(* The tree being built: nodes are created and declarations appended. *)
Push == \E k \in 1..MaxAdds : PushDecl(k)

PushP == \E t, k \in 1..MaxAdds : PushPass(t, k)

TreeNext == Make \/ Push \/ PushP

TreeSpec == Init /\ [][TreeNext]_vars

(* A Type value and the evaluation of its predicates. *)
TypeInit ==
    /\ pages = <<>>
    /\ pc = "building"
    /\ walk = None
    /\ dtorCalls = <<>>
    /\ reads = {}
    /\ created = <<>>
    /\ structs = <<>> /\ uniforms = <<>> /\ functions = <<>> /\ techniques = <<>>
    /\ appendLog = <<>>
    /\ ty \in ShapedTypes \cup QualifiedTypes
    /\ cls = NotEvaluated

TypeNext == Classify

TypeSpec == TypeInit /\ [][TypeNext]_vars

----------------------------------------------------------------------------
(* Properties of the memory pool *)

SlotRefs ==
    UNION {{[page |-> i, off |-> o] : o \in DOMAIN pages[i].slots} :
              i \in 1..Len(pages)}

SlotAt(ps, ref) == ps[ref.page].slots[ref.off]

RECURSIVE SumSizes(_, _)
SumSizes(slots, offs) ==
    IF offs = {} THEN 0
    ELSE LET o == CHOOSE x \in offs : TRUE
         IN  slots[o].size + SumSizes(slots, offs \ {o})

\* C1: after any k >= 1 add calls, release invokes the recorded destructor
\* of each allocated slot exactly once: every invocation is on an allocated
\* slot with its recorded destructor, no slot is destroyed twice, and once
\* clear() has ended no slot was skipped.
ReleaseDestroysEachSlotOnce ==
    /\ \A k \in 1..Len(dtorCalls) :
          /\ [page |-> dtorCalls[k].page, off |-> dtorCalls[k].off] \in SlotRefs
          /\ dtorCalls[k].dtor =
                pages[dtorCalls[k].page].slots[dtorCalls[k].off].dtor
    /\ \A k, l \in 1..Len(dtorCalls) :
          (dtorCalls[k].page = dtorCalls[l].page
             /\ dtorCalls[k].off = dtorCalls[l].off) => k = l
    /\ pc \in {"done", "crashed"} =>
          \A ref \in SlotRefs : \E k \in 1..Len(dtorCalls) :
              dtorCalls[k].page = ref.page /\ dtorCalls[k].off = ref.off

\* C9: every header read made by clear(), the read of the size field after
\* the last slot of a page included, lies wholly inside the page's buffer.
ClearReadsInsideBuffer ==
    \A r \in reads : InBuffer(pages[r.page], r.off, r.len)

\* C2: while the tree is being built, every node created by make_node<T>
\* carries the tag of shape T and the location passed at its creation, no
\* matter which nodes were created after it.
NodeKeepsTagAndLocation ==
    pc = "building" =>
        \A k \in 1..Len(created) :
            LET c == created[k]
            IN  /\ [page |-> c.page, off |-> c.off] \in SlotRefs
                /\ SlotAt(pages, c).data.id = nodeid[c.T.shape]
                /\ SlotAt(pages, c).data.location = c.location

NodeKeepsTagAndLocationWitness ==
    /\ pc = "building"
    /\ Len(created) = MaxAdds
    /\ created[1].T # created[MaxAdds].T
    /\ created[1].location # created[MaxAdds].location
    /\ created[1].page = created[MaxAdds].page

(* a step that is an add: make_node returned a new slot *)
AddStep == Len(created') = Len(created) + 1

NewRef == created'[Len(created')]

Disjoint(o1, s1, o2, s2) == o1 + s1 <= o2 \/ o2 + s2 <= o1

\* C3: an add leaves every earlier slot where and as it was (page, offset,
\* recorded size, recorded destructor), and the bytes of the new slot do not
\* intersect the bytes of an earlier slot.
AddLeavesSlotsAlone ==
    [][AddStep =>
        \A ref \in SlotRefs :
            /\ ref.page <= Len(pages')
            /\ pages'[ref.page].memsize = pages[ref.page].memsize
            /\ ref.off \in DOMAIN pages'[ref.page].slots
            /\ SlotAt(pages', ref).size = SlotAt(pages, ref).size
            /\ SlotAt(pages', ref).dtor = SlotAt(pages, ref).dtor
            /\ ref.page = NewRef.page =>
                  Disjoint(ref.off, SlotAt(pages, ref).size,
                           NewRef.off, SlotAt(pages', NewRef).size)]_vars

AddLeavesSlotsAloneWitness ==
    /\ pc = "building"
    /\ Len(pages) >= 2
    /\ \E i \in 1..Len(pages) : Cardinality(DOMAIN pages[i].slots) >= 2

\* C4: add never fails, and every slot it returned lies inside the buffer
\* of its page, also for a footprint above the default page size.
AddSucceedsInsidePage ==
    /\ pc # "threw"
    /\ \A ref \in SlotRefs :
          /\ ref.off >= 0
          /\ ref.off + SlotAt(pages, ref).size <= pages[ref.page].memsize

AddSucceedsInsidePageWitness ==
    /\ Len(pages) >= 2
    /\ \E i \in 1..Len(pages) :
          /\ pages[i].memsize > DefaultPageSize
          /\ 0 \in DOMAIN pages[i].slots
          /\ pages[i].slots[0].size = pages[i].memsize

(* the pages a new slot of `size` bytes has room in: with room to spare,   *)
(* and with at least the room needed                                       *)
RoomToSpare(size) ==
    {i \in 1..Len(pages) : pages[i].memsize - pages[i].cursor > size}

RoomEnough(size) ==
    {i \in 1..Len(pages) : pages[i].memsize - pages[i].cursor >= size}

FirstFit(room) ==
    /\ room # {} =>
          /\ Len(pages') = Len(pages)
          /\ NewRef.page \in room
          /\ \A j \in room : NewRef.page <= j
    /\ room = {} =>
          /\ Len(pages') = Len(pages) + 1
          /\ NewRef.page = Len(pages')
          /\ pages'[NewRef.page].memsize =
                Max(DefaultPageSize, SlotAt(pages', NewRef).size)

\* C8 as stated: the slot goes to the first page whose remaining bytes are
\* >= the footprint, and a page of max(4096, footprint) bytes is appended
\* only when there is no such page.
AddFirstFitEnoughRoom ==
    [][AddStep => FirstFit(RoomEnough(SlotAt(pages', NewRef).size))]_vars

\* C8 amended: the slot goes to the first page whose remaining bytes are
\* strictly greater than the footprint (cursor + footprint < capacity), and
\* a page of max(4096, footprint) bytes is appended when there is none.
AddFirstFitRoomToSpare ==
    [][AddStep => FirstFit(RoomToSpare(SlotAt(pages', NewRef).size))]_vars

AddFirstFitWitness ==
    /\ pc = "building"
    /\ Len(created) = 2
    /\ Len(pages) = 2
    /\ pages[1].memsize - pages[1].cursor = pages[2].slots[0].size

\* C10: before release every page holds at least one slot, its slots lie
\* back to back from offset 0, and its cursor is the sum of their recorded
\* sizes and is at most the page's capacity.
PagesWellFormed ==
    pc = "building" =>
        \A i \in 1..Len(pages) :
            LET page == pages[i]
                offs == DOMAIN page.slots
            IN  /\ offs # {}
                /\ 0 \in offs
                /\ \A o \in offs :
                      \/ o + page.slots[o].size \in offs
                      \/ o + page.slots[o].size = page.cursor
                /\ \A o \in offs : page.slots[o].size > 0
                /\ page.cursor = SumSizes(page.slots, offs)
                /\ page.cursor <= page.memsize

PagesWellFormedWitness ==
    /\ pc = "building"
    /\ Len(pages) = 2
    /\ Cardinality(DOMAIN pages[1].slots) = 2
    /\ pages[2].cursor = pages[2].memsize

----------------------------------------------------------------------------
(* Properties of the collections *)

RECURSIVE Expected(_, _, _)
Expected(log, coll, owner) ==
    IF log = <<>> THEN <<>>
    ELSE LET e == Head(log)
             rest == Expected(Tail(log), coll, owner)
         IN  IF e.coll = coll /\ e.owner = owner THEN <<e.decl>> \o rest
             ELSE rest

(* reading a collection yields, in order, the nodes that were appended *)
Yields(ptrs, decls) ==
    /\ Len(ptrs) = Len(decls)
    /\ \A j \in 1..Len(ptrs) :
          /\ ptrs[j] = PtrOf(decls[j])
          /\ ptrs[j] \in SlotRefs
          /\ SlotAt(pages, ptrs[j]).data.id = nodeid[created[decls[j]].T.shape]
          /\ SlotAt(pages, ptrs[j]).data.location = created[decls[j]].location

\* C7: each top-level collection and each Technique's Passes list yields
\* exactly the declarations appended to it, in the order of the appends,
\* whatever make_node calls were made in between.
CollectionsKeepOrder ==
    /\ Yields(structs, Expected(appendLog, "structs", 0))
    /\ Yields(uniforms, Expected(appendLog, "uniforms", 0))
    /\ Yields(functions, Expected(appendLog, "functions", 0))
    /\ Yields(techniques, Expected(appendLog, "techniques", 0))
    /\ \A t \in 1..Len(created) :
          created[t].T.shape = "Technique" =>
              /\ PtrOf(t) \in SlotRefs
              /\ "Passes" \in DOMAIN SlotAt(pages, PtrOf(t)).data
              /\ Yields(SlotAt(pages, PtrOf(t)).data.Passes,
                        Expected(appendLog, "Passes", t))

CollectionsKeepOrderWitness ==
    /\ Len(appendLog) >= 2
    /\ appendLog[1].coll = appendLog[2].coll
    /\ appendLog[1].owner = appendLog[2].owner
    /\ appendLog[1].nodes < appendLog[2].nodes
    /\ appendLog[2].nodes < Len(created)

----------------------------------------------------------------------------
(* Properties of Type *)

Count(b) == IF b THEN 1 ELSE 0

Classifications ==
    Count(cls.IsVoid) + Count(cls.IsScalar) + Count(cls.IsVector)
      + Count(cls.IsMatrix) + Count(cls.IsArray) + Count(cls.IsStruct)
      + Count(cls.IsTexture) + Count(cls.IsSampler) + Count(cls.IsString)

NumericClasses == {Class.Bool, Class.Int, Class.Uint, Class.Float}

Bit(mask, n) == (mask \div 2^n) % 2 = 1

\* C6: HasQualifier(InOut) holds exactly when bit 5 (In) and bit 6 (Out) of
\* Qualifiers are both set; HasQualifier(In) and HasQualifier(Out) follow
\* their own bit.
InOutNeedsBothBits ==
    cls.evaluated =>
        /\ cls.HasQualifier.InOut <=> (Bit(ty.Qualifiers, 5) /\ Bit(ty.Qualifiers, 6))
        /\ cls.HasQualifier.In <=> Bit(ty.Qualifiers, 5)
        /\ cls.HasQualifier.Out <=> Bit(ty.Qualifiers, 6)

InOutNeedsBothBitsWitness ==
    /\ cls.evaluated
    /\ Bit(ty.Qualifiers, 5) /\ ~Bit(ty.Qualifiers, 6)
    /\ Bit(ty.Qualifiers, 8)
    /\ cls.HasQualifier.In /\ ~cls.HasQualifier.InOut

====
